---- MODULE Spec2Model ----
(***************************************************************************)
(* Site configuration and the Header / Footer display components of the    *)
(* blog.  JavaScript values are tagged records; a string is the tuple of   *)
(* its characters (a code point outside ASCII is written "U+XXXX").        *)
(***************************************************************************)
EXTENDS Integers, Sequences, FiniteSets, TLC

VARIABLES
    configFile,     \* which shipped configuration file the build loaded
    footerFile,     \* which shipped Footer component the build uses
    siteConfig,     \* the loaded module.exports object
    layoutTitle,    \* the title the layout passes to Header
    layoutRootPath, \* the root path the layout passes to Header
    props,          \* the props object of the page render in progress
    pc,             \* position of the page render
    headerOut,      \* completion of Header for this page render
    footerOut,      \* completion of Footer for this page render
    headerEvals,    \* evaluations of Header in this page render
    footerEvals,    \* evaluations of Footer in this page render
    pending,        \* callbacks, timers, effects, state updates scheduled
    prevHeaderOut,  \* Header's completion in the previous render of the same inputs
    prevFooterOut,  \* Footer's completion in an earlier page render
    awayRenders,    \* completed page renders off the root route since the last one on it
    titleOnRootOnly \* every completed page render showed the title iff on the root route

vars == <<configFile, footerFile, siteConfig, layoutTitle, layoutRootPath, props, pc, headerOut,
          footerOut, headerEvals, footerEvals, pending, prevHeaderOut, prevFooterOut,
          awayRenders, titleOnRootOnly>>

----------------------------------------------------------------------------
(* Bounds *)

MaxTitleLen == 1

MaxPathLen == 1

\* awayRenders counts up to MaxAway and stays there
MaxAway == 2

----------------------------------------------------------------------------
(* JavaScript values *)

Str(c) == [type |-> "string", chars |-> c]

Num(n) == [type |-> "number", num |-> n]

Bool(b) == [type |-> "boolean", bool |-> b]

Obj(f) == [type |-> "object", fields |-> f]

Arr(s) == [type |-> "array", items |-> s]

Undefined == [type |-> "undefined"]

Null == [type |-> "null"]

Element(tag, attrs, children) ==
    [type |-> "element", tag |-> tag, attrs |-> attrs, children |-> children]

Throw(e) == [type |-> "throw", error |-> e]

\* a property that the object literal does not have
Absent == [type |-> "absent"]

\* nothing evaluated yet
None == [type |-> "none"]

\* an object literal from name/value pairs; Absent values are left out
MkObject(pairs) ==
    LET present == {p \in pairs : p[2] # Absent}
    IN  Obj([n \in {p[1] : p \in present} |-> (CHOOSE p \in present : p[1] = n)[2]])

\* property read o.name; reading a property of undefined or null throws
Get(o, name) ==
    IF o.type \in {"undefined", "null"} THEN Throw("TypeError")
    ELSE IF o.type = "object" /\ name \in DOMAIN o.fields THEN o.fields[name]
    ELSE Undefined

\* a === b on primitive values (same type and same value)
StrictEquals(a, b) ==
    /\ a.type = b.type
    /\ a = b

\* ToBoolean(v)
Truthy(v) ==
    CASE v.type = "boolean" -> v.bool
      [] v.type = "string" -> v.chars # <<>>
      [] v.type = "number" -> v.num # 0
      [] v.type \in {"undefined", "null"} -> FALSE
      [] OTHER -> TRUE

\* a && b
And(a, b) == IF Truthy(a) THEN b ELSE a

----------------------------------------------------------------------------
(* Site configuration: the two shipped module.exports objects *)

SydDevMetaConfig ==
    Obj([
        title |-> Str(<<"s", "y", "d", "-", "d", "e", "v", ".", "c", "o", "m", " ">>)
      , description |-> Str(<<"A", "n", " ", "i", "O", "S", " ", "d", "e", "v", "e", "l",
                                "o", "p", "m", "e", "n", "t", " ", "b", "l", "o", "g", " ",
                                "c", "r", "a", "f", "t", "e", "d", " ", "f", "o", "r", " ",
                                "k", "n", "o", "w", "l", "e", "d", "g", "e", " ", "s", "h",
                                "a", "r", "i", "n", "g", "U+1F680">>)
      , author |-> Str(<<"[", "S", "Y", "D", " ", "S", "H", "I", "D", "D", "A", "R", "T",
                           "A", "]">>)
      , introduction |-> Str(<<"A", "n", " ", "i", "O", "S", " ", "d", "e", "v", "e", "l",
                                 "o", "p", "m", "e", "n", "t", " ", "b", "l", "o", "g", " ",
                                 "c", "r", "a", "f", "t", "e", "d", " ", "f", "o", "r", " ",
                                 "k", "n", "o", "w", "l", "e", "d", "g", "e", " ", "s", "h",
                                 "a", "r", "i", "n", "g", ".">>)
      , siteUrl |-> Str(<<"h", "t", "t", "p", "s", ":", "/", "/", "s", "y", "d", "-", "d",
                            "e", "v", ".", "c", "o", "m">>)
      , social |-> Obj([
            twitter |-> Str(<<>>)
          , github |-> Str(<<"s", "y", "d", "-", "d", "e", "v", "e", "l", "o", "p", "e", "r">>)
          , medium |-> Str(<<>>)
          , facebook |-> Str(<<>>)
          , instagram |-> Str(<<>>)
          , linkedin |-> Str(<<"s", "h", "i", "d", "d", "a", "r", "t", "a">>)
        ])
      , icon |-> Str(<<"c", "o", "n", "t", "e", "n", "t", "/", "a", "s", "s", "e", "t",
                         "s", "/", "f", "e", "l", "o", "g", ".", "p", "n", "g">>)
      , keywords |-> Arr(<<Str(<<"b", "l", "o", "g">>),
                             Str(<<"j", "a", "v", "a", "s", "c", "r", "i", "p", "t">>),
                             Str(<<"j", "s">>),
                             Str(<<"w", "e", "b">>),
                             Str(<<"r", "e", "a", "c", "t">>),
                             Str(<<"f", "r", "o", "n", "t", "e", "n", "d">>),
                             Str(<<"d", "e", "v", "e", "l", "o", "p">>)>>)
      , comment |-> Obj([
            disqusShortName |-> Str(<<>>)
          , utterances |-> Str(<<>>)
        ])
      , configs |-> Obj([
            countOfInitialPost |-> Num(10)
        ])
      , sponsor |-> Obj([
            buyMeACoffeeId |-> Str(<<>>)
        ])
      , share |-> Obj([
            facebookAppId |-> Str(<<>>)
        ])
      , ga |-> Str(<<"U", "A", "-", "1", "7", "4", "9", "4", "6", "9", "0", "2", "-", "1">>)
    ])

\* gatsby-meta-config.js with a negative post count
GatsbyMetaConfigNegativeCount ==
    Obj([SydDevMetaConfig.fields EXCEPT
            !.configs = Obj([countOfInitialPost |-> Num(0 - 1)])])

GatsbyMetaConfig ==
    Obj([
        title |-> Str(<<"G", "r", "a", "b", "T", "h", "e", "S", "k", "i", "l", "l", "s", " ">>)
      , description |-> Str(<<"A", "n", " ", "i", "O", "S", " ", "d", "e", "v", "e", "l",
                                "o", "p", "m", "e", "n", "t", " ", "b", "l", "o", "g", " ",
                                "c", "r", "a", "f", "t", "e", "d", " ", "f", "o", "r", " ",
                                "k", "n", "o", "w", "l", "e", "d", "g", "e", " ", "s", "h",
                                "a", "r", "i", "n", "g", "U+1F60A">>)
      , author |-> Str(<<"[", "S", "Y", "D", "]">>)
      , introduction |-> Str(<<"A", "n", " ", "i", "O", "S", " ", "d", "e", "v", "e", "l",
                                 "o", "p", "m", "e", "n", "t", " ", "b", "l", "o", "g", " ",
                                 "c", "r", "a", "f", "t", "e", "d", " ", "f", "o", "r", " ",
                                 "k", "n", "o", "w", "l", "e", "d", "g", "e", " ", "s", "h",
                                 "a", "r", "i", "n", "g", ".">>)
      , siteUrl |-> Str(<<"h", "t", "t", "p", "s", ":", "/", "/", "g", "r", "a", "b", "t",
                            "h", "e", "s", "k", "i", "l", "l", "s", ".", "c", "o", "m">>)
      , social |-> Obj([
            twitter |-> Str(<<>>)
          , github |-> Str(<<"g", "r", "a", "b", "t", "h", "e", "s", "k", "i", "l", "l", "s">>)
          , medium |-> Str(<<>>)
          , facebook |-> Str(<<>>)
          , instagram |-> Str(<<"_", "s", "y", "d", "8", "8">>)
        ])
      , icon |-> Str(<<"c", "o", "n", "t", "e", "n", "t", "/", "a", "s", "s", "e", "t",
                         "s", "/", "f", "e", "l", "o", "g", ".", "p", "n", "g">>)
      , keywords |-> Arr(<<Str(<<"b", "l", "o", "g">>),
                             Str(<<"j", "a", "v", "a", "s", "c", "r", "i", "p", "t">>),
                             Str(<<"j", "s">>),
                             Str(<<"w", "e", "b">>),
                             Str(<<"r", "e", "a", "c", "t">>),
                             Str(<<"f", "r", "o", "n", "t", "e", "n", "d">>),
                             Str(<<"d", "e", "v", "e", "l", "o", "p">>)>>)
      , comment |-> Obj([
            disqusShortName |-> Str(<<>>)
          , utterances |-> Str(<<>>)
        ])
      , configs |-> Obj([
            countOfInitialPost |-> Num(10)
        ])
      , sponsor |-> Obj([
            buyMeACoffeeId |-> Str(<<>>)
        ])
      , share |-> Obj([
            facebookAppId |-> Str(<<>>)
        ])
      , ga |-> Str(<<"U", "A", "-", "1", "7", "4", "9", "4", "6", "9", "0", "2", "-", "1">>)
    ])

ConfigFiles == {"syd-dev", "gatsby-meta-config.js"}

\* require() of the configuration file
LoadConfig(file) == IF file = "gatsby-meta-config.js" THEN GatsbyMetaConfig ELSE SydDevMetaConfig

----------------------------------------------------------------------------
(* Header *)

HomeHeaderClass ==
    Str(<<"h", "o", "m", "e", "-", "h", "e", "a", "d", "e", "r">>)

\* Variants of Header, each with one plausible defect; the properties below
\* are also evaluated against them to show that they depend on Header's code.

IsPrefix(a, b) == Len(a) <= Len(b) /\ SubSeq(b, 1, Len(a)) = a

RECURSIVE TrimStart(_)
TrimStart(c) == IF c # <<>> /\ Head(c) = " " THEN TrimStart(Tail(c)) ELSE c

RECURSIVE TrimEnd(_)
TrimEnd(c) ==
    IF c # <<>> /\ c[Len(c)] = " " THEN TrimEnd(SubSeq(c, 1, Len(c) - 1)) ELSE c

\* isRoot = location.pathname.startsWith(rootPath)
HeaderStartsWith(p) ==
    LET title == Get(p, "title")
        location == Get(p, "location")
        rootPath == Get(p, "rootPath")
        pathname == Get(location, "pathname")
    IN  IF pathname.type = "throw" THEN pathname
        ELSE LET isRoot == IF pathname.type = "string" /\ rootPath.type = "string"
                           THEN Bool(IsPrefix(rootPath.chars, pathname.chars))
                           ELSE Bool(StrictEquals(pathname, rootPath))
             IN  And(isRoot, Element("h1", {<<"className", HomeHeaderClass>>}, <<title>>))

\* <h1 className="home-header">{isRoot && title}</h1>
HeaderAlwaysH1(p) ==
    LET title == Get(p, "title")
        location == Get(p, "location")
        rootPath == Get(p, "rootPath")
        pathname == Get(location, "pathname")
    IN  IF pathname.type = "throw" THEN pathname
        ELSE LET isRoot == Bool(StrictEquals(pathname, rootPath))
             IN  Element("h1", {<<"className", HomeHeaderClass>>}, <<And(isRoot, title)>>)

\* {title.trim()}
HeaderTrim(p) ==
    LET title == Get(p, "title")
        location == Get(p, "location")
        rootPath == Get(p, "rootPath")
        pathname == Get(location, "pathname")
    IN  IF pathname.type = "throw" THEN pathname
        ELSE LET isRoot == Bool(StrictEquals(pathname, rootPath))
             IN  IF ~Truthy(isRoot) THEN isRoot
                 ELSE IF title.type # "string" THEN Throw("TypeError")
                 ELSE Element("h1", {<<"className", HomeHeaderClass>>},
                              <<Str(TrimEnd(TrimStart(title.chars)))>>)

\* a module-level flag shows the title on the first page render only
HeaderFirstRenderOnly(p) ==
    LET title == Get(p, "title")
        location == Get(p, "location")
        rootPath == Get(p, "rootPath")
        pathname == Get(location, "pathname")
    IN  IF pathname.type = "throw" THEN pathname
        ELSE LET isRoot == Bool(StrictEquals(pathname, rootPath) /\ prevFooterOut = None)
             IN  And(isRoot, Element("h1", {<<"className", HomeHeaderClass>>}, <<title>>))

\* {title[0].toUpperCase() + title.slice(1)}, which throws on an empty title
HeaderCapitalize(p) ==
    LET title == Get(p, "title")
        location == Get(p, "location")
        rootPath == Get(p, "rootPath")
        pathname == Get(location, "pathname")
    IN  IF pathname.type = "throw" THEN pathname
        ELSE LET isRoot == Bool(StrictEquals(pathname, rootPath))
             IN  IF ~Truthy(isRoot) THEN isRoot
                 ELSE IF title.type # "string" \/ title.chars = <<>> THEN Throw("TypeError")
                 ELSE Element("h1", {<<"className", HomeHeaderClass>>}, <<title>>)

\* isRoot && title.length && <h1 ...>
HeaderLengthGuard(p) ==
    LET title == Get(p, "title")
        location == Get(p, "location")
        rootPath == Get(p, "rootPath")
        pathname == Get(location, "pathname")
    IN  IF pathname.type = "throw" THEN pathname
        ELSE LET isRoot == Bool(StrictEquals(pathname, rootPath))
             IN  IF ~Truthy(isRoot) THEN isRoot
                 ELSE IF title.type # "string" THEN Throw("TypeError")
                 ELSE And(Num(Len(title.chars)),
                          Element("h1", {<<"className", HomeHeaderClass>>}, <<title>>))

\* isRoot is remembered in a module-level flag that is cleared on the first
\* page off the root route and never set again
HeaderHidesAfterLeaving(p) ==
    LET title == Get(p, "title")
        location == Get(p, "location")
        rootPath == Get(p, "rootPath")
        pathname == Get(location, "pathname")
    IN  IF pathname.type = "throw" THEN pathname
        ELSE LET isRoot == Bool(StrictEquals(pathname, rootPath) /\ awayRenders = 0)
             IN  And(isRoot, Element("h1", {<<"className", HomeHeaderClass>>}, <<title>>))

\* s.replace(/\/$/, '')
StripTrailingSlash(c) ==
    IF c # <<>> /\ c[Len(c)] = "/" THEN SubSeq(c, 1, Len(c) - 1) ELSE c

\* isRoot = location.pathname.replace(/\/$/, '') === rootPath.replace(/\/$/, '')
HeaderNormalizesPath(p) ==
    LET title == Get(p, "title")
        location == Get(p, "location")
        rootPath == Get(p, "rootPath")
        pathname == Get(location, "pathname")
    IN  IF pathname.type = "throw" THEN pathname
        ELSE IF pathname.type # "string" \/ rootPath.type # "string" THEN Throw("TypeError")
        ELSE LET isRoot == Bool(StrictEquals(Str(StripTrailingSlash(pathname.chars)),
                                             Str(StripTrailingSlash(rootPath.chars))))
             IN  And(isRoot, Element("h1", {<<"className", HomeHeaderClass>>}, <<title>>))

\* isRoot = location.pathname === rootPath && !location.search
HeaderReadsSearch(p) ==
    LET title == Get(p, "title")
        location == Get(p, "location")
        rootPath == Get(p, "rootPath")
        pathname == Get(location, "pathname")
    IN  IF pathname.type = "throw" THEN pathname
        ELSE LET isRoot == Bool(StrictEquals(pathname, rootPath)
                                    /\ ~Truthy(Get(location, "search")))
             IN  And(isRoot, Element("h1", {<<"className", HomeHeaderClass>>}, <<title>>))

\* return isRoot ? <h1 className="home-header">{title}</h1> : null
HeaderTernaryNull(p) ==
    LET title == Get(p, "title")
        location == Get(p, "location")
        rootPath == Get(p, "rootPath")
        pathname == Get(location, "pathname")
    IN  IF pathname.type = "throw" THEN pathname
        ELSE LET isRoot == Bool(StrictEquals(pathname, rootPath))
             IN  IF Truthy(isRoot)
                 THEN Element("h1", {<<"className", HomeHeaderClass>>}, <<title>>)
                 ELSE Null

\* isRoot = rootPath && location.pathname === rootPath
HeaderGuardsRootPath(p) ==
    LET title == Get(p, "title")
        location == Get(p, "location")
        rootPath == Get(p, "rootPath")
        pathname == Get(location, "pathname")
    IN  IF pathname.type = "throw" THEN pathname
        ELSE LET isRoot == And(rootPath, Bool(StrictEquals(pathname, rootPath)))
             IN  And(isRoot, Element("h1", {<<"className", HomeHeaderClass>>}, <<title>>))

\* isRoot = location?.pathname === rootPath
HeaderOptionalChaining(p) ==
    LET title == Get(p, "title")
        location == Get(p, "location")
        rootPath == Get(p, "rootPath")
        pathname == IF location.type \in {"undefined", "null"} THEN Undefined
                    ELSE Get(location, "pathname")
    IN  LET isRoot == Bool(StrictEquals(pathname, rootPath))
        IN  And(isRoot, Element("h1", {<<"className", HomeHeaderClass>>}, <<title>>))

Header(p) ==
    LET title == Get(p, "title")
        location == Get(p, "location")
        rootPath == Get(p, "rootPath")
        pathname == Get(location, "pathname")
    IN  IF pathname.type = "throw" THEN pathname
        ELSE LET isRoot == Bool(StrictEquals(pathname, rootPath))
             IN  And(isRoot, Element("h1", {<<"className", HomeHeaderClass>>}, <<title>>))

----------------------------------------------------------------------------
(* Footer: the three shipped versions *)

FooterClass ==
    Str(<<"f", "o", "o", "t", "e", "r">>)

Copyright2023 ==
    Str(<<"C", "o", "p", "y", "r", "i", "g", "h", "t", "U+00A9", "2", "0", "2", "3">>)

Copyright2021 ==
    Str(<<"C", "o", "p", "y", "r", "i", "g", "h", "t", "U+00A9", "2", "0", "2", "1">>)

Copyright2020 ==
    Str(<<"C", "o", "p", "y", "r", "i", "g", "h", "t", "U+00A9", "2", "0", "2", "0">>)

BarSydDev ==
    Str(<<"|", " ", "s", "y", "d", "-", "d", "e", "v", ".", "c", "o", "m">>)

HappyCoding ==
    Str(<<"H", "a", "p", "p", "y", " ", "C", "o", "d", "i", "n", "g", " ", "U+1F60A">>)

SydDevText ==
    Str(<<"s", "y", "d", "-", "d", "e", "v", ".", "c", "o", "m">>)

GrabtheskillsText ==
    Str(<<"G", "r", "a", "b", "t", "h", "e", "s", "k", "i", "l", "l", "s", ".", "c", "o", "m">>)

GitHubUrl ==
    Str(<<"h", "t", "t", "p", "s", ":", "/", "/", "g", "i", "t", "h", "u", "b", ".", "c",
          "o", "m", "/", "G", "r", "a", "b", "T", "h", "e", "S", "k", "i", "l", "l", "s",
          ".", "c", "o", "m">>)

ZeroTrackers ==
    Str(<<"Z", "e", "r", "o", " ", "t", "r", "a", "c", "k", "e", "r", "s", " ", "o", "n",
          " ", "t", "h", "i", "s", " ", "s", "i", "t", "e", " ", "a", "s", " ", "p", "r",
          "i", "v", "a", "c", "y", " ", "i", "s", " ", "a", " ", "f", "u", "n", "d", "a",
          "m", "e", "n", "t", "a", "l", " ", "h", "u", "m", "a", "n", " ", "r", "i", "g",
          "h", "t", ".">>)

Blank ==
    Str(<<"_", "b", "l", "a", "n", "k">>)

Space == Str(<<" ">>)

\* Copyright©2023 | {title}
FooterShowsTitle(p) ==
    Element("footer", {<<"className", FooterClass>>},
            <<Copyright2023, Space, Str(<<"|", " ">>), Get(p, "title"),
              Element("br", {}, <<>>), HappyCoding>>)

Footer(p) ==
    Element("footer", {<<"className", FooterClass>>},
            <<Copyright2023, Space, BarSydDev, Element("br", {}, <<>>), HappyCoding>>)

Footer2021(p) ==
    Element("footer", {<<"className", FooterClass>>},
            <<Copyright2021, Space,
              Element("a", {<<"target", Blank>>, <<"href", GitHubUrl>>}, <<SydDevText>>), Space,
              Element("a", {<<"target", Blank>>, <<"href", GitHubUrl>>}, <<>>),
              Element("br", {}, <<>>),
              Element("a", {<<"target", Blank>>, <<"href", Str(<<>>)>>}, <<SydDevText>>), Space,
              Element("a", {<<"target", Blank>>, <<"href", Str(<<>>)>>}, <<>>)>>)

Footer2020(p) ==
    Element("footer", {<<"className", FooterClass>>},
            <<Copyright2020, Space,
              Element("a", {<<"target", Blank>>, <<"href", GitHubUrl>>}, <<GrabtheskillsText>>), Space,
              Element("a", {<<"target", Blank>>, <<"href", GitHubUrl>>}, <<>>),
              Element("br", {}, <<>>),
              Element("a", {<<"target", Blank>>, <<"href", Str(<<>>)>>}, <<ZeroTrackers>>), Space,
              Element("a", {<<"target", Blank>>, <<"href", Str(<<>>)>>}, <<>>)>>)

FooterFiles == {"Footer", "Footer2021", "Footer2020"}

\* the Footer component the build imports
FooterOf(file, p) ==
    CASE file = "Footer" -> Footer(p)
      [] file = "Footer2021" -> Footer2021(p)
      [] file = "Footer2020" -> Footer2020(p)

----------------------------------------------------------------------------
(* Text the rendering framework produces for a node *)

RECURSIVE Digits(_)
Digits(n) ==
    IF n < 10 THEN <<CHOOSE d \in {"0", "1", "2", "3", "4", "5", "6", "7", "8", "9"} :
                        d = <<"0", "1", "2", "3", "4", "5", "6", "7", "8", "9">>[n + 1]>>
    ELSE Digits(n \div 10) \o Digits(n % 10)

RECURSIVE RenderedText(_)
RECURSIVE ChildrenText(_)
RenderedText(v) ==
    CASE v.type = "string" -> v.chars
      [] v.type = "number" -> Digits(v.num)
      [] v.type = "element" -> ChildrenText(v.children)
      [] OTHER -> <<>>

ChildrenText(cs) ==
    IF cs = <<>> THEN <<>> ELSE RenderedText(Head(cs)) \o ChildrenText(Tail(cs))

----------------------------------------------------------------------------
(* Inputs of the page renders *)

PostsAbc ==
    Str(<<"/", "p", "o", "s", "t", "s", "/", "a", "b", "c">>)

IndexHtml ==
    Str(<<"/", "i", "n", "d", "e", "x", ".", "h", "t", "m", "l">>)

Blog ==
    Str(<<"/", "b", "l", "o", "g">>)

BlogSlash ==
    Str(<<"/", "b", "l", "o", "g", "/">>)

BlogUpper ==
    Str(<<"/", "B", "l", "o", "g", "/">>)

Query ==
    Str(<<"?", "q", "=", "1">>)

ScenarioTitle == SydDevText

TitleAlphabet == {"s", " "}

PathAlphabet == {"/", "a"}

Strings(alphabet, n) == UNION {[1..k -> alphabet] : k \in 0..n}

TitleOpts(cfg) ==
    {Str(c) : c \in Strings(TitleAlphabet, MaxTitleLen)}
        \cup {Get(cfg, "title"), ScenarioTitle, Absent}

PathOpts ==
    {Str(c) : c \in Strings(PathAlphabet, MaxPathLen)}
        \cup {PostsAbc, IndexHtml, Blog, BlogSlash, BlogUpper, Absent}

LocationOpts ==
    {MkObject({<<"pathname", path>>, <<"search", search>>}) :
        path \in PathOpts, search \in {Absent, Query}} \cup {Absent, Null}

MkProps(t, loc, r) == MkObject({<<"title", t>>, <<"location", loc>>, <<"rootPath", r>>})

\* the values Header's result can depend on
HeaderInputs(p) ==
    <<Get(p, "title"), Get(Get(p, "location"), "pathname"), Get(p, "rootPath")>>

----------------------------------------------------------------------------
(* The build: configuration load and page renders *)

Init ==
    /\ configFile \in ConfigFiles
    /\ footerFile \in FooterFiles
    /\ siteConfig = LoadConfig(configFile)
    /\ layoutTitle \in TitleOpts(siteConfig)
    /\ layoutRootPath \in PathOpts
    /\ props = None
    /\ pc = "idle"
    /\ headerOut = None
    /\ footerOut = None
    /\ headerEvals = 0
    /\ footerEvals = 0
    /\ pending = {}
    /\ prevHeaderOut = None
    /\ prevFooterOut = None
    /\ awayRenders = 0
    /\ titleOnRootOnly = TRUE

\* the framework starts the render of a page at location loc
BeginRender(loc) ==
    /\ pc \in {"idle", "done", "failed"}
    /\ props' = MkProps(layoutTitle, loc, layoutRootPath)
    /\ pc' = "header"
    /\ prevHeaderOut' = IF headerOut # None /\ HeaderInputs(props') = HeaderInputs(props)
                        THEN headerOut ELSE None
    /\ prevFooterOut' = IF footerOut # None THEN footerOut ELSE prevFooterOut
    /\ headerOut' = None
    /\ footerOut' = None
    /\ headerEvals' = 0
    /\ footerEvals' = 0
    /\ UNCHANGED <<awayRenders, titleOnRootOnly, configFile, footerFile, siteConfig,
                   layoutTitle, layoutRootPath, pending>>

\* Header writes the title it was given back into the configuration
EvalHeaderWritesConfig ==
    /\ pc = "header"
    /\ headerOut' = Header(props)
    /\ siteConfig' = Obj([siteConfig.fields EXCEPT !.title = Get(props, "title")])
    /\ headerEvals' = headerEvals + 1
    /\ pc' = IF headerOut'.type = "throw" THEN "failed" ELSE "footer"
    /\ UNCHANGED <<awayRenders, titleOnRootOnly, configFile, footerFile,
                   layoutTitle, layoutRootPath, props,
                   footerOut, footerEvals, pending, prevHeaderOut, prevFooterOut>>

\* Header schedules a state update while it renders
EvalHeaderSchedules ==
    /\ pc = "header"
    /\ headerOut' = Header(props)
    /\ pending' = pending \cup {"setState"}
    /\ headerEvals' = headerEvals + 1
    /\ pc' = IF headerOut'.type = "throw" THEN "failed" ELSE "footer"
    /\ UNCHANGED <<awayRenders, titleOnRootOnly, configFile, footerFile, siteConfig,
                   layoutTitle, layoutRootPath, props,
                   footerOut, footerEvals, prevHeaderOut, prevFooterOut>>

\* the framework calls Header(props)
EvalHeader ==
    /\ pc = "header"
    /\ headerOut' = Header(props)
    /\ headerEvals' = headerEvals + 1
    /\ pc' = IF headerOut'.type = "throw" THEN "failed" ELSE "footer"
    /\ UNCHANGED <<awayRenders, titleOnRootOnly, configFile, footerFile, siteConfig,
                   layoutTitle, layoutRootPath, props,
                   footerOut, footerEvals, pending, prevHeaderOut, prevFooterOut>>

\* the framework calls Footer(fp)
EvalFooter(fp) ==
    /\ pc = "footer"
    /\ footerOut' = FooterOf(footerFile, fp)
    /\ footerEvals' = footerEvals + 1
    /\ pc' = "commit"
    /\ UNCHANGED <<awayRenders, titleOnRootOnly, configFile, footerFile, siteConfig,
                   layoutTitle, layoutRootPath, props,
                   headerOut, headerEvals, pending, prevHeaderOut, prevFooterOut>>

\* the page render in progress is on the root route
OnRoot == HeaderInputs(props)[2] = HeaderInputs(props)[3]

\* the page render in progress shows the title
TitleShown ==
    /\ headerOut.type = "element"
    /\ \E i \in DOMAIN headerOut.children : headerOut.children[i] = HeaderInputs(props)[1]

\* the framework finishes the page, or evaluates again when work was scheduled
Commit ==
    /\ pc = "commit"
    /\ IF pending = {}
       THEN /\ pc' = "done"
            /\ awayRenders' = IF OnRoot THEN 0
                              ELSE IF awayRenders < MaxAway THEN awayRenders + 1
                              ELSE awayRenders
            /\ titleOnRootOnly' = (titleOnRootOnly /\ (TitleShown <=> OnRoot))
            /\ UNCHANGED pending
       ELSE /\ pc' = "header"
            /\ pending' = {}
            /\ UNCHANGED <<awayRenders, titleOnRootOnly>>
    /\ UNCHANGED <<configFile, footerFile, siteConfig, layoutTitle, layoutRootPath, props,
                   headerOut, footerOut, headerEvals, footerEvals, prevHeaderOut,
                   prevFooterOut>>

Next ==
    \/ \E loc \in LocationOpts : BeginRender(loc)
    \/ EvalHeader
    \/ \E fp \in {MkObject({}), props} : EvalFooter(fp)
    \/ Commit

Spec == Init /\ [][Next]_vars

----------------------------------------------------------------------------
(* Properties *)

Evaluated == headerOut # None

Location == Get(props, "location")

Pathname == Get(Location, "pathname")

RootPath == Get(props, "rootPath")

Title == Get(props, "title")

LocationIsObject == props # None /\ Location.type = "object"

\* Header's result is the h1 element whose child is the title it was given
RendersTitle == headerOut.type = "element" /\ headerOut.children = <<Title>>

\* a node for which the framework emits no markup and no text
RendersNothing(v) == v.type \in {"boolean", "null", "undefined"}

\* C1: for every title, pathname p and rootPath r, Header renders the title
\* if and only if p equals r.
C1_TitleIffRoot ==
    (Evaluated /\ LocationIsObject) => (RendersTitle <=> Pathname = RootPath)

C1_Witness ==
    /\ Evaluated /\ LocationIsObject
    /\ Pathname = BlogSlash /\ RootPath = BlogSlash
    /\ Title.type = "string" /\ Title.chars # <<>>
    /\ RendersTitle

\* C2: when pathname differs from rootPath, Header renders nothing: no h1
\* element, no markup and no title text.
C2_NothingOffRoot ==
    (Evaluated /\ LocationIsObject /\ Pathname # RootPath) =>
        /\ RendersNothing(headerOut)
        /\ RenderedText(headerOut) = <<>>

C2_Witness ==
    /\ Evaluated /\ LocationIsObject
    /\ RootPath = Str(<<"/">>) /\ Pathname = PostsAbc
    /\ Title = ScenarioTitle
    /\ headerOut = Bool(FALSE)

\* C3: when pathname equals rootPath, the text Header renders is exactly the
\* title it was given, character for character; a title taken from the
\* configuration appears unmodified.
C3_TitleVerbatim ==
    (Evaluated /\ LocationIsObject /\ Pathname = RootPath /\ Title.type = "string") =>
        /\ headerOut.type = "element"
        /\ headerOut.children = <<Title>>
        /\ RenderedText(headerOut) = Title.chars
        /\ (layoutTitle = Get(siteConfig, "title") =>
                RenderedText(headerOut) = Get(LoadConfig(configFile), "title").chars)

C3_Witness ==
    /\ Evaluated /\ LocationIsObject
    /\ RootPath = Str(<<"/">>) /\ Pathname = Str(<<"/">>)
    /\ Title = Get(siteConfig, "title")
    /\ RenderedText(headerOut) = Title.chars
    /\ Title.chars[Len(Title.chars)] = " "

\* C4: the configuration is read-only: after any sequence of Header and
\* Footer evaluations every field equals its value at load time.
C4_ConfigReadOnly == siteConfig = LoadConfig(configFile)

C4_Witness ==
    /\ pc = "done" /\ headerEvals = 1 /\ footerEvals = 1
    /\ prevFooterOut # None
    /\ Title = Get(siteConfig, "title")
    /\ siteConfig = LoadConfig(configFile)

\* C5: every evaluation of Footer, whatever its props, whatever the route and
\* whatever was rendered before, yields the same fixed copyright notice.
CopyrightSign == <<"C", "o", "p", "y", "r", "i", "g", "h", "t", "U+00A9">>

C5_FooterConstant ==
    (footerOut # None) =>
        /\ footerOut.type = "element" /\ footerOut.tag = "footer"
        /\ IsPrefix(CopyrightSign, RenderedText(footerOut))
        /\ (prevFooterOut # None => footerOut = prevFooterOut)

C5_Witness ==
    /\ footerOut # None /\ prevFooterOut # None
    /\ footerOut = prevFooterOut
    /\ footerFile = "Footer"
    /\ Pathname = PostsAbc

\* C6: Header is a pure function of its inputs: evaluations with equal
\* title, pathname and rootPath return equal results, and an evaluation
\* changes neither its props, the location object, nor any other state.
C6_HeaderPure ==
    [][pc = "header" =>
        /\ props' = props
        /\ siteConfig' = siteConfig
        /\ pending' = pending
        /\ layoutTitle' = layoutTitle /\ layoutRootPath' = layoutRootPath
        /\ footerOut' = footerOut /\ footerEvals' = footerEvals
        /\ (prevHeaderOut # None => headerOut' = prevHeaderOut)]_vars

C6_Witness ==
    /\ Evaluated /\ LocationIsObject
    /\ prevHeaderOut # None /\ headerOut = prevHeaderOut
    /\ headerOut.type = "element"
    /\ "search" \in DOMAIN Location.fields

\* props of the HeaderProps shape {title: string, location: {pathname: string},
\* rootPath: string}
ShapeOK ==
    /\ LocationIsObject
    /\ Title.type = "string" /\ Pathname.type = "string" /\ RootPath.type = "string"

\* C7: for every props value of the HeaderProps shape, empty strings
\* included, evaluation completes and returns the title element or nothing,
\* never an error.
C7_NoErrors ==
    (Evaluated /\ ShapeOK) =>
        /\ headerOut.type # "throw"
        /\ pc # "failed"
        /\ (RendersTitle \/ headerOut = Bool(FALSE))

C7_Witness ==
    /\ Evaluated /\ ShapeOK
    /\ Title = Str(<<>>) /\ Pathname = Str(<<>>) /\ RootPath = Str(<<>>)
    /\ headerOut.type = "element"
    /\ pc = "done"

Social == Get(siteConfig, "social")

\* C8: an empty or absent title is not a failure: Header on the root route
\* evaluates without error and renders empty text; the social handles of the
\* shipped configuration, empty ones included, are strings.
C8_EmptyFieldsValid ==
    /\ (Evaluated /\ LocationIsObject /\ Pathname = RootPath
            /\ Title \in {Str(<<>>), Undefined}) =>
        /\ headerOut.type = "element"
        /\ RenderedText(headerOut) = <<>>
        /\ pc # "failed"
    /\ Social.type = "object"
    /\ \A k \in DOMAIN Social.fields : Social.fields[k].type = "string"

C8_Witness ==
    /\ Evaluated /\ LocationIsObject /\ Pathname = RootPath
    /\ "title" \notin DOMAIN props.fields /\ Title = Undefined
    /\ headerOut.type = "element" /\ RenderedText(headerOut) = <<>>
    /\ Get(Social, "twitter") = Str(<<>>)

\* C9: Header and Footer are evaluated exactly once per page render: one call
\* produces the complete output and neither component schedules a callback,
\* timer, effect or state update that causes a further evaluation.
C9_OncePerRender ==
    /\ pending = {}
    /\ headerEvals <= 1 /\ footerEvals <= 1
    /\ (pc \in {"footer", "commit", "done", "failed"} => headerEvals = 1)
    /\ (pc \in {"commit", "done"} => footerEvals = 1)
    /\ (pc = "done" => headerOut # None /\ footerOut # None)

C9_Witness ==
    /\ pc = "done" /\ pending = {}
    /\ headerEvals = 1 /\ footerEvals = 1
    /\ headerOut.type = "element" /\ footerOut.type = "element"

CountOfInitialPost == Get(Get(siteConfig, "configs"), "countOfInitialPost")

\* C10: in every shipped configuration configs.countOfInitialPost is an
\* integer greater than or equal to 0.
C10_CountNonNegative ==
    /\ CountOfInitialPost.type = "number"
    /\ CountOfInitialPost.num \in Int
    /\ CountOfInitialPost.num >= 0

C10_Witness ==
    /\ configFile = "gatsby-meta-config.js"
    /\ siteConfig = GatsbyMetaConfig
    /\ CountOfInitialPost = Num(10)
    /\ pc = "done"

\* C11: across any sequence of page renders the title is shown on exactly
\* the renders whose pathname equals rootPath: returning to the root route
\* after any number of other pages shows the title again, leaving hides it.
C11_TitleFollowsRoute ==
    /\ titleOnRootOnly
    /\ (Evaluated => (TitleShown <=> OnRoot))

C11_Witness ==
    /\ pc = "commit" /\ awayRenders >= 2
    /\ prevHeaderOut = None
    /\ OnRoot /\ TitleShown
    /\ Title = ScenarioTitle
    /\ titleOnRootOnly

UpperCase ==
    <<"A", "B", "C", "D", "E", "F", "G", "H", "I", "J", "K", "L", "M",
      "N", "O", "P", "Q", "R", "S", "T", "U", "V", "W", "X", "Y", "Z">>

LowerCase ==
    <<"a", "b", "c", "d", "e", "f", "g", "h", "i", "j", "k", "l", "m",
      "n", "o", "p", "q", "r", "s", "t", "u", "v", "w", "x", "y", "z">>

ToLower(c) ==
    [i \in DOMAIN c |->
        IF \E k \in DOMAIN UpperCase : UpperCase[k] = c[i]
        THEN LowerCase[CHOOSE k \in DOMAIN UpperCase : UpperCase[k] = c[i]]
        ELSE c[i]]

IsSuffix(a, b) == Len(a) <= Len(b) /\ SubSeq(b, Len(b) - Len(a) + 1, Len(b)) = a

\* the path without an appended index.html
StripIndex(c) ==
    IF IsSuffix(IndexHtml.chars, c) THEN SubSeq(c, 1, Len(c) - Len(IndexHtml.chars) + 1) ELSE c

\* the path as a normalizing comparison would see it: no file name, lower
\* case, no trailing slash
NormalPath(c) == StripTrailingSlash(ToLower(StripIndex(c)))

\* pathname and rootPath differ, but only by a trailing slash, letter case or
\* an appended file name
NearMiss ==
    /\ Pathname.type = "string" /\ RootPath.type = "string"
    /\ Pathname # RootPath
    /\ NormalPath(Pathname.chars) = NormalPath(RootPath.chars)

\* C12: Header compares pathname and rootPath by exact strict equality with
\* no normalization: a pathname that differs from rootPath only by a trailing
\* slash, letter case or an appended file name renders nothing.
C12_NoNormalization ==
    (Evaluated /\ LocationIsObject /\ NearMiss) =>
        /\ headerOut = Bool(FALSE)
        /\ ~TitleShown
        /\ RenderedText(headerOut) = <<>>

C12_Witness ==
    /\ Evaluated /\ LocationIsObject /\ NearMiss
    /\ RootPath = BlogSlash /\ Pathname = Blog
    /\ headerOut = Bool(FALSE)

\* the other spellings of the claim are reached as well
C12_WitnessCase ==
    /\ Evaluated /\ LocationIsObject /\ NearMiss
    /\ RootPath = BlogSlash /\ Pathname = BlogUpper

C12_WitnessIndex ==
    /\ Evaluated /\ LocationIsObject /\ NearMiss
    /\ RootPath = Str(<<"/">>) /\ Pathname = IndexHtml

C12_WitnessEmpty ==
    /\ Evaluated /\ LocationIsObject /\ NearMiss
    /\ RootPath = Str(<<"/">>) /\ Pathname = Str(<<>>)

\* the own property o.name, or Absent
FieldOrAbsent(o, name) ==
    IF o.type = "object" /\ name \in DOMAIN o.fields THEN o.fields[name] ELSE Absent

\* locations with the pathname of loc and any other fields
LocationVariants(loc) ==
    IF loc.type # "object" THEN {loc}
    ELSE {MkObject({<<"pathname", FieldOrAbsent(loc, "pathname")>>, <<"search", search>>,
                    <<"hash", hash>>, <<"state", state>>, <<"key", key>>}) :
            search \in {Absent, Query},
            hash \in {Absent, Str(<<"#", "t", "o", "p">>)},
            state \in {Absent, Obj([from |-> Str(<<"/">>)])},
            key \in {Absent, Str(<<"k", "1">>)}}

\* props with the title, pathname and rootPath of p and anything else different
PropsVariants(p) ==
    {MkObject({<<"title", FieldOrAbsent(p, "title")>>, <<"location", loc>>,
               <<"rootPath", FieldOrAbsent(p, "rootPath")>>, <<"children", children>>}) :
        loc \in LocationVariants(FieldOrAbsent(p, "location")),
        children \in {Absent, Str(<<"x">>)}}

\* C13: Header's output depends only on title, location.pathname and
\* rootPath: evaluations that agree on these return the same result whatever
\* the other fields of location and whatever extra props.
C13_OnlyThreeInputs ==
    (pc \in {"footer", "failed"}) =>
        \A q \in PropsVariants(props) :
            /\ HeaderInputs(q) = HeaderInputs(props)
            /\ Header(q) = headerOut

C13_Witness ==
    /\ pc = "footer" /\ LocationIsObject
    /\ "search" \in DOMAIN Location.fields
    /\ RendersTitle
    /\ \E q \in PropsVariants(props) :
        /\ "search" \notin DOMAIN Get(q, "location").fields
        /\ "state" \in DOMAIN Get(q, "location").fields
        /\ "children" \in DOMAIN q.fields
        /\ Header(q) = headerOut

\* C14: Header's return value is always one of exactly two shapes: the
\* boolean false when pathname differs from rootPath (never null or
\* undefined), or a single h1 element with class name "home-header" whose
\* only child is the title.
C14_TwoShapes ==
    (Evaluated /\ headerOut.type # "throw") =>
        /\ (~OnRoot => headerOut = Bool(FALSE))
        /\ (OnRoot => /\ headerOut.type = "element"
                      /\ headerOut.tag = "h1"
                      /\ headerOut.attrs = {<<"className", HomeHeaderClass>>}
                      /\ Len(headerOut.children) = 1
                      /\ headerOut.children[1] = Title)
        /\ headerOut \notin {Null, Undefined}

C14_Witness ==
    /\ Evaluated /\ LocationIsObject
    /\ RootPath = Str(<<"/">>) /\ Pathname = IndexHtml
    /\ headerOut = Bool(FALSE)
    /\ prevHeaderOut = Bool(FALSE)

\* C15: when location.pathname and rootPath are both absent Header treats the
\* page as the root route and renders the title, because undefined ===
\* undefined.
C15_BothAbsentIsRoot ==
    (Evaluated /\ LocationIsObject
        /\ "pathname" \notin DOMAIN Location.fields
        /\ "rootPath" \notin DOMAIN props.fields) =>
            /\ RendersTitle
            /\ OnRoot
            /\ pc # "failed"

C15_Witness ==
    /\ Evaluated /\ LocationIsObject
    /\ "pathname" \notin DOMAIN Location.fields
    /\ "rootPath" \notin DOMAIN props.fields
    /\ Pathname = Undefined /\ RootPath = Undefined
    /\ Title = ScenarioTitle
    /\ headerOut.type = "element" /\ RenderedText(headerOut) = ScenarioTitle.chars

\* C16: when the location prop is absent (undefined or null) evaluating
\* Header raises an error instead of rendering nothing, for every title and
\* rootPath.
C16_MissingLocationThrows ==
    (Evaluated /\ Location.type \in {"undefined", "null"}) =>
        /\ headerOut = Throw("TypeError")
        /\ ~RendersNothing(headerOut)
        /\ pc = "failed"

C16_Witness ==
    /\ Evaluated /\ Location = Null
    /\ headerOut = Throw("TypeError")
    /\ pc = "failed"

C16_WitnessUndefined ==
    /\ Evaluated /\ "location" \notin DOMAIN props.fields
    /\ headerOut = Throw("TypeError")

====
